---- MODULE Spec2Model ----
(***************************************************************************)
(* NovaSphere: the SolarSystem class of the solar-system visualisation.    *)
(* The model covers the orbit/rotation update of animate(), the focus      *)
(* handling (focusOnSun, focusOnPlanet, resetCameraView, the close and     *)
(* reset buttons), the pointer, touch and wheel handlers of the home-made  *)
(* orbit controls, and the GSAP camera transitions those handlers start.   *)
(*                                                                         *)
(* Numbers.  JavaScript numbers are modelled in fixed point:               *)
(*   angles   in units of 1/AngScale radian  (Math.PI is the value PI),    *)
(*   lengths  in units of 1/LenScale scene unit,                           *)
(*   sines and cosines in units of 1/TrigScale.                            *)
(* Every product is rounded to the nearest unit (RDiv).                    *)
(***************************************************************************)
EXTENDS Integers, Sequences, FiniteSets, TLC

----------------------------------------------------------------------------
(* Fixed-point arithmetic                                                  *)

AngScale == 10^6
LenScale == 10^2
TrigScale == 10^4
EaseScale == 10^3

Abs(x) == IF x < 0 THEN -x ELSE x

Max2(a, b) == IF a > b THEN a ELSE b

Min2(a, b) == IF a < b THEN a ELSE b

\* a / b rounded to the nearest integer (b > 0)
RDiv(a, b) == (2 * a + b) \div (2 * b)

\* Math.PI
PI == 3141593

HalfPi == PI \div 2

TwoPi == PI * 2

\* sin t for 0 <= t <= PI/4 (t in 1/TrigScale radian), Horner form of the
\* series t - t^3/6 + t^5/120 - t^7/5040
SeriesSin(t) ==
    LET y  == RDiv(t * t, TrigScale)
        a3 == TrigScale - RDiv(y, 42)
        a2 == TrigScale - RDiv(y * a3, 20 * TrigScale)
        a1 == TrigScale - RDiv(y * a2, 6 * TrigScale)
    IN  RDiv(t * a1, TrigScale)

\* cos t for 0 <= t <= PI/4, series 1 - t^2/2 + t^4/24 - t^6/720
SeriesCos(t) ==
    LET y  == RDiv(t * t, TrigScale)
        b3 == TrigScale - RDiv(y, 30)
        b2 == TrigScale - RDiv(y * b3, 12 * TrigScale)
    IN  TrigScale - RDiv(y * b2, 2 * TrigScale)

\* sin x for 0 <= x <= PI/2 (x in angle units)
QuadrantSin(x) ==
    IF 2 * x <= HalfPi
    THEN SeriesSin(RDiv(x, AngScale \div TrigScale))
    ELSE SeriesCos(RDiv(HalfPi - x, AngScale \div TrigScale))

\* Math.sin: any angle, reduced to the first quadrant
Sin(a) ==
    LET r == a % TwoPi
    IN  IF r <= HalfPi THEN QuadrantSin(r)
        ELSE IF r <= PI THEN QuadrantSin(PI - r)
        ELSE IF r <= PI + HalfPi THEN -QuadrantSin(r - PI)
        ELSE -QuadrantSin(TwoPi - r)

\* Math.cos
Cos(a) == Sin(a + HalfPi)

\* (sine or cosine) * length
Scaled(c, len) == RDiv(c * len, TrigScale)

\* integer square root (floor), by bisection
RECURSIVE SqrtBetween(_, _, _)
SqrtBetween(n, lo, hi) ==
    IF hi - lo <= 1 THEN lo
    ELSE LET mid == (lo + hi) \div 2
         IN  IF mid * mid <= n THEN SqrtBetween(n, mid, hi)
             ELSE SqrtBetween(n, lo, mid)

ISqrt(n) == SqrtBetween(n, 0, 46341)

----------------------------------------------------------------------------
(* THREE.Vector3                                                           *)

Origin == <<0, 0, 0>>

VAdd(u, v) == <<u[1] + v[1], u[2] + v[2], u[3] + v[3]>>

VSub(u, v) == <<u[1] - v[1], u[2] - v[2], u[3] - v[3]>>

\* Vector3.distanceTo
Dist(u, v) ==
    LET d == VSub(u, v) IN ISqrt(d[1] * d[1] + d[2] * d[2] + d[3] * d[3])

\* Vector3.setFromSpherical: (radius, phi, theta) -> (x, y, z)
SetFromSpherical(s) ==
    LET sinPhiRadius == Scaled(Sin(s.phi), s.radius)
    IN  << Scaled(Sin(s.theta), sinPhiRadius),
           Scaled(Cos(s.phi), s.radius),
           Scaled(Cos(s.theta), sinPhiRadius) >>

\* Vector3.applyMatrix4 of Matrix4.makeRotationY(theta)
RotateY(v, theta) ==
    << Scaled(Cos(theta), v[1]) + Scaled(Sin(theta), v[3]),
       v[2],
       Scaled(Cos(theta), v[3]) - Scaled(Sin(theta), v[1]) >>

\* the smoothing factor of camera.position.lerp(target, 0.05), in percent
LerpPercent == 5

\* Vector3.lerp(target, 0.05)
Lerp(v, target) ==
    [i \in 1..3 |-> v[i] + RDiv((target[i] - v[i]) * LerpPercent, 100)]

----------------------------------------------------------------------------
(* Bounds of the model                                                     *)

\* planets modelled: the first NumPlanets entries of planetData
NumPlanets == 2

\* animation frames after the one init() runs
MaxFrames == 3

\* input events (clicks, drags, wheel, buttons, sliders) in one behaviour
MaxInputs == 3

\* wheel events in one behaviour of the zoom specification
MaxWheel == 17

\* GSAP ticks a 2-second camera transition takes
TweenTicks == 2

----------------------------------------------------------------------------
(* createSolarSystem: the authored planet data (index 0 is Mercury)        *)

Body(name, radius, orbitRadius, speed, rotationSpeed) ==
    [name |-> name, radius |-> radius, orbitRadius |-> orbitRadius,
     speed |-> speed, rotationSpeed |-> rotationSpeed]

\* radius and orbitRadius in length units, speeds in angle units per frame
planetData ==
    << Body("Mercury", 120, 8 * LenScale, 3000, 300),
       Body("Venus", 180, 12 * LenScale, 5000, 800),
       Body("Earth", 200, 16 * LenScale, 8000, 10000),
       Body("Mars", 160, 20 * LenScale, 5000, 9000),
       Body("Jupiter", 550, 28 * LenScale, 1000, 20000),
       Body("Saturn", 480, 36 * LenScale, 400, 18000),
       Body("Uranus", 320, 44 * LenScale, 150, 15000),
       Body("Neptune", 310, 50 * LenScale, 80, 16000) >>

PlanetIndex == 0 .. (NumPlanets - 1)

Data(i) == planetData[i + 1]

\* this.globalSpeedMultiplier, set in the constructor and never written again
globalSpeedMultiplier == 1

\* value="1" of a speed slider, in tenths
SliderDefault == 10

\* slider positions the model tries (min 0, max 3, step 0.1), in tenths
SliderTenths == {0, 25}

\* null, for currentFocusedPlanet
NoPlanet == -1

\* sun.rotation.y += 0.005 and stars.rotation.y += 0.0002, in angle units
SunSpin == 5000

StarSpin == 200

----------------------------------------------------------------------------
(* State                                                                   *)

VARIABLES
    phase,                 \* "created": init() has built the scene and not yet
                           \*   called animate(); "running" afterwards; "failed"
                           \*   when init() caught an error instead
    planets,               \* this.planets: angle, speed, mesh position, mesh
                           \*   rotation.y and shader time of each planet
    sun,                   \* this.sun: rotation.y and shader time
    starsRotation,         \* this.stars.rotation.y
    clock,                 \* this.clock: elapsed time, in frames
    isPaused,              \* this.isPaused
    sliders,               \* value of each planet's speed slider, in tenths
    currentFocusedPlanet,  \* this.currentFocusedPlanet (an index or NoPlanet)
    cameraFollowMode,      \* this.cameraFollowMode
    planetInfo,            \* the overlay: class 'active' and the name shown
    controls,              \* this.controls
    camera,                \* this.camera: position and the point looked at
    tweens,                \* GSAP's tweens of camera.position, oldest first
    budget,                \* bound: frames and input events still allowed
    lastEvent,             \* history: the handler that ran last
    anchor,                \* history: per planet, angle and unpaused frame count
                           \*   when its slider was last set
    pauseLog,              \* history: body state when pause was switched on,
                           \*   frames run while paused, frames run since
    trail,                 \* history: the focus requests made, oldest first
    lastDeltaY,            \* history: deltaY of the last wheel event
    gesture,               \* history: what pressed last (mouse or touch),
                           \*   what dragged the pointer since, and what the
                           \*   last click's ray hit
    overlayDom,            \* the document: which of the overlay's elements
                           \*   (planet-info, planet-name, planet-details,
                           \*   close-info) getElementById finds
    errors                 \* history: console.error calls of init()'s catch,
                           \*   and exceptions thrown out of event handlers

bodyVars == <<planets, sun, starsRotation>>

focusVars == <<currentFocusedPlanet, cameraFollowMode, planetInfo>>

cameraVars == <<controls, camera, tweens>>

historyVars == <<anchor, pauseLog, trail, lastDeltaY, gesture>>

domVars == <<overlayDom, errors>>

vars == <<phase, planets, sun, starsRotation, clock, isPaused, sliders,
          currentFocusedPlanet, cameraFollowMode, planetInfo, controls,
          camera, tweens, budget, lastEvent, anchor, pauseLog, trail,
          lastDeltaY, gesture, overlayDom, errors>>

----------------------------------------------------------------------------
(* Construction                                                            *)

\* constructor: this.defaultCameraPosition
defaultCameraPosition == <<0, 30 * LenScale, 50 * LenScale>>

\* setupControls: new THREE.Spherical(50, Math.PI / 3, 0)
DefaultSpherical ==
    [radius |-> 50 * LenScale, phi |-> PI \div 3, theta |-> 0]

\* controls.minDistance, controls.maxDistance
minDistance == 10 * LenScale

maxDistance == 200 * LenScale

\* controls.rotationSpeed = 0.005 radian per pixel, in angle units
rotationSpeed == 5000

\* the phi limits of the drag handlers: 0.1 and Math.PI - 0.1
PhiMin == AngScale \div 10

PhiMax == PI - AngScale \div 10

\* createPlanet(data, index): the planet object and its mesh
CreatePlanet(i) ==
    [ angle     |-> (i * PI * 2) \div 8,
      speed     |-> Data(i).speed,
      position  |-> <<Data(i).orbitRadius, 0, 0>>,
      rotationY |-> 0,
      time      |-> 0 ]

\* updateCameraFromControls: the camera placed from controls.spherical
CameraFromControls(c) ==
    [ position |-> VAdd(SetFromSpherical(c.spherical), c.target),
      lookAt   |-> c.target ]

\* setupControls
InitialControls ==
    [ isMouseDown |-> FALSE, mouseX |-> 0, mouseY |-> 0,
      spherical |-> DefaultSpherical, target |-> Origin ]

BodySnapshot == [planets |-> planets, sun |-> sun, stars |-> starsRotation]

\* the state the constructor and init() have built when init() reaches
\* setupUI, whatever the document holds
Built ==
    /\ phase = "created"
    /\ planets = [i \in PlanetIndex |-> CreatePlanet(i)]
    /\ sun = [rotationY |-> 0, time |-> 0]
    /\ starsRotation = 0
    /\ clock = 0
    /\ isPaused = FALSE
    /\ sliders = [i \in PlanetIndex |-> SliderDefault]
    /\ currentFocusedPlanet = NoPlanet
    /\ cameraFollowMode = FALSE
    /\ planetInfo = [active |-> FALSE, name |-> "Planet Information"]
    /\ controls = InitialControls
    /\ camera = CameraFromControls(InitialControls)
    /\ tweens = <<>>
    /\ lastEvent = "init"
    /\ anchor = [i \in PlanetIndex |-> [angle |-> CreatePlanet(i).angle, frames |-> 0]]
    /\ pauseLog = [snap |-> [planets |-> [i \in PlanetIndex |-> CreatePlanet(i)],
                             sun |-> [rotationY |-> 0, time |-> 0], stars |-> 0],
                   paused |-> 0, resumed |-> 0]
    /\ trail = <<>>
    /\ lastDeltaY = 0
    /\ gesture = [by |-> "none", dragged |-> "no", hit |-> "no ray", index |-> NoPlanet]
    /\ errors = [reported |-> 0, thrown |-> 0]

\* the state init() has built when it reaches its call of animate(), in the
\* document of index.html
Created == Built /\ overlayDom = "complete"

----------------------------------------------------------------------------
(* animate                                                                 *)

\* UpdatePlanet with the slider ignored: the angle advances by the authored speed
UpdatePlanetBaseSpeed(i, pl, elapsedTime) ==
    LET angle == pl.angle + Data(i).speed * globalSpeedMultiplier
    IN  [ pl EXCEPT
            !.time      = elapsedTime,
            !.angle     = angle,
            !.position  = << Scaled(Cos(angle), Data(i).orbitRadius),
                             pl.position[2],
                             Scaled(Sin(angle), Data(i).orbitRadius) >>,
            !.rotationY = pl.rotationY + Data(i).rotationSpeed ]

\* UpdatePlanet with the cosine used for both coordinates
UpdatePlanetCosTwice(i, pl, elapsedTime) ==
    LET angle == pl.angle + pl.speed * globalSpeedMultiplier
    IN  [ pl EXCEPT
            !.time      = elapsedTime,
            !.angle     = angle,
            !.position  = << Scaled(Cos(angle), Data(i).orbitRadius),
                             pl.position[2],
                             Scaled(Cos(angle), Data(i).orbitRadius) >>,
            !.rotationY = pl.rotationY + Data(i).rotationSpeed ]

\* one planet's step of the unpaused branch: shader time, orbital motion,
\* mesh position, self-rotation
\* UpdatePlanet with the spin scaled by the slider like the orbital speed
UpdatePlanetSpinScaled(i, pl, elapsedTime) ==
    LET angle == pl.angle + pl.speed * globalSpeedMultiplier
    IN  [ pl EXCEPT
            !.time      = elapsedTime,
            !.angle     = angle,
            !.position  = << Scaled(Cos(angle), Data(i).orbitRadius),
                             pl.position[2],
                             Scaled(Sin(angle), Data(i).orbitRadius) >>,
            !.rotationY = pl.rotationY + (Data(i).rotationSpeed * pl.speed) \div Data(i).speed ]

UpdatePlanet(i, pl, elapsedTime) ==
    LET angle == pl.angle + pl.speed * globalSpeedMultiplier
    IN  [ pl EXCEPT
            !.time      = elapsedTime,
            !.angle     = angle,
            !.position  = << Scaled(Cos(angle), Data(i).orbitRadius),
                             pl.position[2],
                             Scaled(Sin(angle), Data(i).orbitRadius) >>,
            !.rotationY = pl.rotationY + Data(i).rotationSpeed ]

\* the offset of the follow camera from the planet: (0.8 d, 0.5 d, d) with
\* d = 5 * radius, rotated about the vertical axis by the planet's angle
FollowOffset(i, angle) ==
    LET distance == Data(i).radius * 5
    IN  RotateY(<<(distance * 8) \div 10, distance \div 2, distance>>, angle)

\* the camera-follow block: lerp towards planet + offset, look at the planet
FollowCamera(cam, i, pl) ==
    [ position |-> Lerp(cam.position, VAdd(pl.position, FollowOffset(i, pl.angle))),
      lookAt   |-> pl.position ]

\* PlanetsAfterFrame with the self-rotation left outside the pause test
PlanetsSpinWhilePaused(ps, paused, elapsedTime) ==
    IF paused
    THEN [i \in PlanetIndex |->
            [ps[i] EXCEPT !.rotationY = @ + Data(i).rotationSpeed]]
    ELSE [i \in PlanetIndex |-> UpdatePlanet(i, ps[i], elapsedTime)]

\* the planets after a frame: untouched while paused, else each one updated
PlanetsAfterFrame(ps, paused, elapsedTime) ==
    IF paused THEN ps
    ELSE [i \in PlanetIndex |-> UpdatePlanet(i, ps[i], elapsedTime)]

\* the Sun after a frame: shader time and rotation, unless paused
SunAfterFrame(s, paused, elapsedTime) ==
    IF paused THEN s
    ELSE [rotationY |-> s.rotationY + SunSpin, time |-> elapsedTime]

\* the camera after a frame: the follow block runs whether paused or not
CameraAfterFrame(cam, follow, focused, ps) ==
    IF follow /\ focused # NoPlanet
    THEN FollowCamera(cam, focused, ps[focused])
    ELSE cam

\* the body of animate()
AnimateBody ==
    LET elapsedTime == clock + 1
        newPlanets  == PlanetsAfterFrame(planets, isPaused, elapsedTime)
    IN  /\ clock' = elapsedTime
        /\ planets' = newPlanets
        /\ sun' = SunAfterFrame(sun, isPaused, elapsedTime)
        /\ starsRotation' = IF isPaused THEN starsRotation ELSE starsRotation + StarSpin
        /\ camera' = CameraAfterFrame(camera, cameraFollowMode, currentFocusedPlanet,
                                      newPlanets)
        /\ anchor' = IF isPaused THEN anchor
                     ELSE [i \in PlanetIndex |-> [anchor[i] EXCEPT !.frames = @ + 1]]
        /\ pauseLog' = IF isPaused THEN [pauseLog EXCEPT !.paused = @ + 1]
                       ELSE [pauseLog EXCEPT !.resumed = @ + 1]
        /\ lastEvent' = "frame"
        /\ UNCHANGED <<isPaused, sliders, focusVars, controls, tweens, trail, lastDeltaY,
                       gesture, domVars>>

\* the documents the model starts in: index.html as it is, the overlay's
\* container without id="planet-info", or the whole overlay removed
OverlayCases == {"complete", "no planet-info", "no overlay"}

\* init(): setupControlPanels throws at closeInfo.addEventListener when the
\* overlay is missing; the catch reports it and animate() is never called
InitFails ==
    /\ phase = "created"
    /\ overlayDom = "no overlay"
    /\ phase' = "failed"
    /\ errors' = [errors EXCEPT !.reported = @ + 1]
    /\ lastEvent' = "init failed"
    /\ UNCHANGED <<bodyVars, clock, isPaused, sliders, focusVars, cameraVars, budget,
                   historyVars, overlayDom>>

\* init(): the first call of animate(), made before any event is handled
InitAnimate ==
    /\ phase = "created"
    /\ overlayDom # "no overlay"
    /\ phase' = "running"
    /\ budget' = budget
    /\ AnimateBody

\* a later call of animate(), from requestAnimationFrame
Animate ==
    /\ phase = "running"
    /\ budget.frames > 0
    /\ budget' = [budget EXCEPT !.frames = @ - 1]
    /\ phase' = phase
    /\ AnimateBody

----------------------------------------------------------------------------
(* setupButtons, setupSpeedControls                                        *)

\* the events of the canvas, whose listeners setupEventListeners registers
\* before setupUI runs
CanvasEvents ==
    {"mousedown", "mousemove", "mouseup", "click", "touchstart", "touchmove", "touchend"}

\* an event is dispatched to its handler
HandleInput(name) ==
    /\ phase = "running" \/ (phase = "failed" /\ name \in CanvasEvents)
    /\ budget.inputs > 0
    /\ budget' = [budget EXCEPT !.inputs = @ - 1]
    /\ lastEvent' = name
    /\ phase' = phase
    /\ clock' = clock

\* a wheel event is dispatched; counted against the wheel budget while it lasts
HandleWheel ==
    /\ phase \in {"running", "failed"}
    /\ budget.wheel > 0 \/ budget.inputs > 0
    /\ budget' = IF budget.wheel > 0 THEN [budget EXCEPT !.wheel = @ - 1]
                 ELSE [budget EXCEPT !.inputs = @ - 1]
    /\ lastEvent' = "wheel"
    /\ phase' = phase
    /\ clock' = clock

\* the pause button's click handler
PauseBtn ==
    /\ HandleInput("pause")
    /\ isPaused' = ~isPaused
    /\ pauseLog' = IF isPaused THEN [pauseLog EXCEPT !.resumed = 0]
                   ELSE [snap |-> BodySnapshot, paused |-> 0, resumed |-> 0]
    /\ UNCHANGED <<bodyVars, sliders, focusVars, cameraVars, anchor, trail, lastDeltaY,
                   gesture, domVars>>

\* SliderInput multiplying the current speed instead of the base speed
SliderInputCompounds(i, tenths) ==
    /\ HandleInput("slider")
    /\ sliders' = [sliders EXCEPT ![i] = tenths]
    /\ planets' = [planets EXCEPT ![i].speed = (planets[i].speed * tenths) \div 10]
    /\ anchor' = [anchor EXCEPT ![i] = [angle |-> planets[i].angle, frames |-> 0]]
    /\ UNCHANGED <<sun, starsRotation, isPaused, focusVars, cameraVars, pauseLog, trail,
                   lastDeltaY, gesture, domVars>>

\* the input handler of planet i's speed slider, moved to tenths/10
SliderInput(i, tenths) ==
    /\ HandleInput("slider")
    /\ sliders' = [sliders EXCEPT ![i] = tenths]
    /\ planets' = [planets EXCEPT ![i].speed = (Data(i).speed * tenths) \div 10]
    /\ anchor' = [anchor EXCEPT ![i] = [angle |-> planets[i].angle, frames |-> 0]]
    /\ UNCHANGED <<sun, starsRotation, isPaused, focusVars, cameraVars, pauseLog, trail,
                   lastDeltaY, gesture, domVars>>

----------------------------------------------------------------------------
(* Focus: showObjectInfo, focusOnSun, focusOnPlanet, resetCameraView       *)

\* gsap.to(camera.position, {duration: 2, x, y, z, onUpdate: lookAt(..)}):
\* a new tween; look is the planet whose mesh onUpdate looks at, or NoPlanet
\* for lookAt(0, 0, 0).  GSAP reads the start values at the first render.
NewTween(to, look) ==
    [started |-> FALSE, from |-> Origin, to |-> to, ticks |-> 0, look |-> look]

\* ShowObjectInfo writing the content only when the overlay is hidden
ShowObjectInfoKeepsContent(name) ==
    [active |-> TRUE, name |-> IF planetInfo.active THEN planetInfo.name ELSE name]

\* showObjectInfo(objectData)
ShowObjectInfo(name) == [active |-> TRUE, name |-> name]

\* an event handler throws a TypeError (a property of null is read)
Throws == errors' = [errors EXCEPT !.thrown = @ + 1]

\* showObjectInfo(objectData) in the document at hand: with the overlay gone
\* it throws at nameElement.textContent; without planet-info it writes the
\* name and the details and throws at this.planetInfo.classList.add
ShowObjectInfoIn(name) ==
    CASE overlayDom = "complete" ->
             planetInfo' = ShowObjectInfo(name) /\ errors' = errors
      [] overlayDom = "no planet-info" ->
             planetInfo' = [planetInfo EXCEPT !.name = name] /\ Throws
      [] OTHER ->
             planetInfo' = planetInfo /\ Throws

\* the statements after showObjectInfo run only if it returned
AfterShowObjectInfo(tween) ==
    tweens' = IF overlayDom = "complete" THEN Append(tweens, tween) ELSE tweens

\* planetInfo.classList.remove('active')
HideInfo(info) == [info EXCEPT !.active = FALSE]

\* focusOnSun: the camera target of the transition
SunViewPosition == <<0, 15 * LenScale, 25 * LenScale>>

\* FocusOnSun with the followed planet and follow mode left as they were
FocusOnSunKeepsFollow ==
    /\ UNCHANGED <<currentFocusedPlanet, cameraFollowMode>>
    /\ ShowObjectInfoIn("Sun")
    /\ AfterShowObjectInfo(NewTween(SunViewPosition, NoPlanet))
    /\ trail' = Append(trail, "sun")

\* FocusOnSun clearing the focused planet and leaving follow mode as it was
FocusOnSunKeepsFollowMode ==
    /\ currentFocusedPlanet' = NoPlanet
    /\ cameraFollowMode' = cameraFollowMode
    /\ ShowObjectInfoIn("Sun")
    /\ AfterShowObjectInfo(NewTween(SunViewPosition, NoPlanet))
    /\ trail' = Append(trail, "sun")

\* focusOnSun()
FocusOnSun ==
    /\ currentFocusedPlanet' = NoPlanet
    /\ cameraFollowMode' = FALSE
    /\ ShowObjectInfoIn("Sun")
    /\ AfterShowObjectInfo(NewTween(SunViewPosition, NoPlanet))
    /\ trail' = Append(trail, "sun")

\* PlanetViewPosition with the same offset for every planet
PlanetViewPositionFixed(i, pl) ==
    VAdd(pl.position, <<0, 5 * LenScale, 10 * LenScale>>)

\* focusOnPlanet: the camera target, planet position + (0, 0.5 d, d)
PlanetViewPosition(i, pl) ==
    LET distance == Data(i).radius * 5
    IN  VAdd(pl.position, <<0, distance \div 2, distance>>)

\* focusOnPlanet(planet)
FocusOnPlanet(i) ==
    /\ currentFocusedPlanet' = i
    /\ cameraFollowMode' = TRUE
    /\ ShowObjectInfoIn(Data(i).name)
    /\ AfterShowObjectInfo(NewTween(PlanetViewPosition(i, planets[i]), i))
    /\ trail' = Append(trail, "planet")

\* ResetControls with the radius left as the wheel set it
ResetControlsKeepsRadius(c) ==
    [c EXCEPT !.spherical = [radius |-> c.spherical.radius, phi |-> PI \div 3, theta |-> 0],
              !.target = Origin]

\* resetCameraView: the orbit parameters it writes
ResetControls(c) ==
    [c EXCEPT !.spherical = [radius |-> 50 * LenScale, phi |-> PI \div 3, theta |-> 0],
              !.target = Origin]

\* resetCameraView(), with the overlay as the calling handler leaves it
ResetCameraView(info) ==
    /\ currentFocusedPlanet' = NoPlanet
    /\ cameraFollowMode' = FALSE
    /\ controls' = ResetControls(controls)
    /\ tweens' = Append(tweens, NewTween(defaultCameraPosition, NoPlanet))
    /\ planetInfo' = info
    /\ camera' = camera

\* CheckPlanetClick with an empty click clearing the focus
CheckPlanetClickDeselects(hit, i) ==
    CASE hit = "sun"    -> FocusOnSun
      [] hit = "planet" -> FocusOnPlanet(i)
      [] OTHER          -> /\ currentFocusedPlanet' = NoPlanet
                           /\ cameraFollowMode' = FALSE
                           /\ planetInfo' = HideInfo(planetInfo)
                           /\ UNCHANGED <<tweens, trail, errors>>

\* checkPlanetClick: the ray hits nothing ("none"), the Sun or planet i
CheckPlanetClick(hit, i) ==
    CASE hit = "sun"    -> FocusOnSun
      [] hit = "planet" -> FocusOnPlanet(i)
      [] OTHER          -> UNCHANGED <<focusVars, tweens, trail, errors>>

Hits == {<<"none", NoPlanet>>, <<"sun", NoPlanet>>} \cup {<<"planet", i>> : i \in PlanetIndex}

\* onMouseClick
MouseClick(hit) ==
    /\ HandleInput("click")
    /\ ~controls.isMouseDown
    /\ CheckPlanetClick(hit[1], hit[2])
    /\ gesture' = [gesture EXCEPT !.dragged = "no", !.hit = hit[1], !.index = hit[2]]
    /\ UNCHANGED <<bodyVars, isPaused, sliders, controls, camera, anchor, pauseLog,
                   lastDeltaY, overlayDom>>

\* the reset button's click handler: resetCameraView() first, then
\* this.planetInfo.classList.remove, which throws when planetInfo is null
ResetBtn ==
    /\ HandleInput("reset")
    /\ IF overlayDom = "complete"
       THEN ResetCameraView(HideInfo(planetInfo)) /\ errors' = errors
       ELSE ResetCameraView(planetInfo) /\ Throws
    /\ trail' = Append(trail, "reset")
    /\ UNCHANGED <<bodyVars, isPaused, sliders, anchor, pauseLog, lastDeltaY, gesture,
                   overlayDom>>

\* the click handler of the overlay's close button:
\* this.planetInfo.classList.remove first, which throws when planetInfo is
\* null, then the two fields and resetCameraView()
CloseInfo ==
    /\ HandleInput("close")
    /\ IF overlayDom = "complete"
       THEN /\ ResetCameraView(HideInfo(planetInfo))
            /\ trail' = Append(trail, "close")
            /\ errors' = errors
       ELSE /\ Throws
            /\ UNCHANGED <<focusVars, cameraVars, trail>>
    /\ UNCHANGED <<bodyVars, isPaused, sliders, anchor, pauseLog, lastDeltaY, gesture,
                   overlayDom>>

----------------------------------------------------------------------------
(* Orbit controls: mouse, touch, wheel                                     *)

\* pointer positions the model tries (clientX, clientY), in pixels
Spots == {<<0, 0>>, <<40, 450>>}

\* wheel deltas the model tries
WheelDeltas == {-100, 0, 100}

\* DragSpherical with the upper limit of phi forgotten
DragSphericalNoMax(s, deltaX, deltaY) ==
    [s EXCEPT !.theta = s.theta - deltaX * rotationSpeed,
              !.phi = Max2(PhiMin, s.phi + deltaY * rotationSpeed)]

\* the drag arithmetic of onMouseMove and onTouchMove
DragSpherical(s, deltaX, deltaY) ==
    [s EXCEPT !.theta = s.theta - deltaX * rotationSpeed,
              !.phi = Max2(PhiMin, Min2(PhiMax, s.phi + deltaY * rotationSpeed))]

\* the drag branch shared by onMouseMove and onTouchMove
Drag(spot, device) ==
    LET c == [controls EXCEPT
                !.spherical = DragSpherical(@, spot[1] - controls.mouseX,
                                               spot[2] - controls.mouseY),
                !.mouseX = spot[1],
                !.mouseY = spot[2]]
    IN  /\ controls' = c
        /\ camera' = IF ~cameraFollowMode THEN CameraFromControls(c) ELSE camera
        /\ gesture' = IF spot # <<controls.mouseX, controls.mouseY>>
                      THEN [gesture EXCEPT !.dragged = device]
                      ELSE gesture

\* onMouseDown
MouseDown(spot) ==
    /\ HandleInput("mousedown")
    /\ controls' = [controls EXCEPT !.isMouseDown = TRUE,
                                    !.mouseX = spot[1], !.mouseY = spot[2]]
    /\ gesture' = [gesture EXCEPT !.by = "mouse", !.dragged = "no"]
    /\ UNCHANGED <<bodyVars, isPaused, sliders, focusVars, camera, tweens, anchor,
                   pauseLog, trail, lastDeltaY, domVars>>

\* onMouseMove (the hover branch only moves the tooltip)
MouseMove(spot) ==
    /\ HandleInput("mousemove")
    /\ IF controls.isMouseDown THEN Drag(spot, "mouse") ELSE UNCHANGED <<controls, camera, gesture>>
    /\ UNCHANGED <<bodyVars, isPaused, sliders, focusVars, tweens, anchor, pauseLog,
                   trail, lastDeltaY, domVars>>

\* onMouseUp
MouseUp ==
    /\ HandleInput("mouseup")
    /\ controls' = [controls EXCEPT !.isMouseDown = FALSE]
    /\ UNCHANGED <<bodyVars, isPaused, sliders, focusVars, camera, tweens, historyVars,
                   domVars>>

\* WheelScale with deltaY = 0 zooming out
WheelScaleZeroOut(deltaY) == IF deltaY >= 0 THEN 11 ELSE 9

\* the zoom factor of onMouseWheel, in tenths
WheelScale(deltaY) == IF deltaY > 0 THEN 11 ELSE 9

\* ClampRadius without the upper limit
ClampRadiusNoMax(r) == Max2(minDistance, r)

\* the clamp of onMouseWheel
ClampRadius(r) == Max2(minDistance, Min2(maxDistance, r))

\* onMouseWheel
MouseWheel(deltaY) ==
    LET c == [controls EXCEPT !.spherical.radius =
                                 ClampRadius(RDiv(@ * WheelScale(deltaY), 10))]
    IN  /\ HandleWheel
        /\ controls' = c
        /\ camera' = IF ~cameraFollowMode THEN CameraFromControls(c) ELSE camera
        /\ lastDeltaY' = deltaY
        /\ UNCHANGED <<bodyVars, isPaused, sliders, focusVars, tweens, anchor, pauseLog, trail,
                       gesture, domVars>>

\* onTouchStart, with event.touches.length = touches
TouchStart(touches, spot) ==
    /\ HandleInput("touchstart")
    /\ controls' = IF touches = 1
                   THEN [controls EXCEPT !.isMouseDown = TRUE,
                                         !.mouseX = spot[1], !.mouseY = spot[2]]
                   ELSE controls
    /\ gesture' = IF touches = 1
                  THEN [gesture EXCEPT !.by = "touch", !.dragged = "no"]
                  ELSE gesture
    /\ UNCHANGED <<bodyVars, isPaused, sliders, focusVars, camera, tweens, anchor,
                   pauseLog, trail, lastDeltaY, domVars>>

\* onTouchMove
TouchMove(touches, spot) ==
    /\ HandleInput("touchmove")
    /\ IF touches = 1 /\ controls.isMouseDown THEN Drag(spot, "touch")
       ELSE UNCHANGED <<controls, camera, gesture>>
    /\ UNCHANGED <<bodyVars, isPaused, sliders, focusVars, tweens, anchor, pauseLog,
                   trail, lastDeltaY, domVars>>

\* touchend: onTouchEnd, then the tap listener registered after it, with
\* event.changedTouches.length = changed
TouchEnd(changed, hit) ==
    LET released == [controls EXCEPT !.isMouseDown = FALSE]
    IN  /\ HandleInput("touchend")
        /\ controls' = released
        /\ camera' = camera
        /\ IF changed = 1 /\ ~released.isMouseDown
           THEN CheckPlanetClick(hit[1], hit[2])
           ELSE UNCHANGED <<focusVars, tweens, trail, errors>>
        /\ gesture' = [gesture EXCEPT !.dragged = "no",
                                      !.hit = IF changed = 1 THEN hit[1] ELSE "no ray",
                                      !.index = IF changed = 1 THEN hit[2] ELSE NoPlanet]
        /\ UNCHANGED <<bodyVars, isPaused, sliders, anchor, pauseLog, lastDeltaY,
                       overlayDom>>

----------------------------------------------------------------------------
(* GSAP: the ticker renders every tween of camera.position, oldest first   *)

\* ease "power2.inOut" at progress k / TweenTicks, in units of 1/EaseScale
Ease(k) ==
    LET n3 == TweenTicks * TweenTicks * TweenTicks
        up == 2 * k
        dn == 2 * (TweenTicks - k)
    IN  IF 2 * k < TweenTicks
        THEN RDiv(EaseScale * up * up * up, 2 * n3)
        ELSE EaseScale - RDiv(EaseScale * dn * dn * dn, 2 * n3)

\* the value a tween writes at its k-th tick
TweenValue(from, to, k) ==
    IF k >= TweenTicks THEN to
    ELSE [i \in 1..3 |-> from[i] + RDiv((to[i] - from[i]) * Ease(k), EaseScale)]

\* one tween's render: start values read at the first render, the position
\* written, then onUpdate's lookAt
RenderTween(t, cam) ==
    LET from == IF t.started THEN t.from ELSE cam.position
        k    == t.ticks + 1
    IN  [ tween  |-> [t EXCEPT !.started = TRUE, !.from = from, !.ticks = k],
          camera |-> [ position |-> TweenValue(from, t.to, k),
                       lookAt   |-> IF t.look = NoPlanet THEN Origin
                                    ELSE planets[t.look].position ] ]

\* RenderTweens with the newest tween rendered first, the oldest last
RECURSIVE RenderTweensNewestFirst(_, _, _)
RenderTweensNewestFirst(todo, kept, cam) ==
    IF todo = <<>> THEN [tweens |-> kept, camera |-> cam]
    ELSE LET last == todo[Len(todo)]
             r    == RenderTween(last, cam)
         IN  RenderTweensNewestFirst(SubSeq(todo, 1, Len(todo) - 1),
                                     IF r.tween.ticks >= TweenTicks THEN kept
                                     ELSE <<r.tween>> \o kept,
                                     r.camera)

\* all tweens rendered in creation order; finished tweens are dropped
RECURSIVE RenderTweens(_, _, _)
RenderTweens(todo, kept, cam) ==
    IF todo = <<>> THEN [tweens |-> kept, camera |-> cam]
    ELSE LET r == RenderTween(Head(todo), cam)
         IN  RenderTweens(Tail(todo),
                          IF r.tween.ticks >= TweenTicks THEN kept
                          ELSE Append(kept, r.tween),
                          r.camera)

\* one tick of gsap.ticker while a camera transition is running
GsapTick ==
    LET r == RenderTweens(tweens, <<>>, camera)
    IN  /\ phase = "running"
        /\ tweens # <<>>
        /\ tweens' = r.tweens
        /\ camera' = r.camera
        /\ lastEvent' = "tick"
        /\ UNCHANGED <<phase, bodyVars, clock, isPaused, sliders, focusVars,
                       controls, budget, historyVars, domVars>>

----------------------------------------------------------------------------
(* Specifications                                                          *)

Frames ==
    \/ InitAnimate
    \/ Animate
    \/ GsapTick

Selections ==
    \/ \E hit \in Hits : MouseClick(hit)
    \/ \E changed \in 1..2, hit \in Hits : TouchEnd(changed, hit)

MouseDrags ==
    \/ \E spot \in Spots : MouseDown(spot)
    \/ \E spot \in Spots : MouseMove(spot)
    \/ MouseUp

TouchDrags ==
    \/ \E touches \in 1..2, spot \in Spots : TouchStart(touches, spot)
    \/ \E touches \in 1..2, spot \in Spots : TouchMove(touches, spot)

Zooms == \E deltaY \in WheelDeltas : MouseWheel(deltaY)

Sliders == \E i \in PlanetIndex, tenths \in SliderTenths : SliderInput(i, tenths)

\* every handler
Next ==
    \/ Frames
    \/ PauseBtn
    \/ Sliders
    \/ Selections
    \/ ResetBtn
    \/ CloseInfo
    \/ MouseDrags
    \/ TouchDrags
    \/ Zooms

Init == Created /\ budget = [frames |-> MaxFrames - 1, inputs |-> MaxInputs, wheel |-> 0]

Spec == Init /\ [][Next]_vars

\* frames, the pause button, the speed sliders and selections; the camera
\* transitions a selection starts are left pending (GsapTick writes only the
\* camera and the tween list)
NextOrbit ==
    \/ InitAnimate
    \/ Animate
    \/ PauseBtn
    \/ Sliders
    \/ \E hit \in Hits : MouseClick(hit)

InitOrbit == Created /\ budget = [frames |-> MaxFrames, inputs |-> MaxInputs, wheel |-> 0]

SpecOrbit == InitOrbit /\ [][NextOrbit]_vars

\* selections, resets and closes, with mouse drags and zooms
NextFocus ==
    \/ InitAnimate
    \/ \E hit \in Hits : MouseClick(hit)
    \/ ResetBtn
    \/ CloseInfo
    \/ MouseDrags
    \/ Zooms

InitFocus == Created /\ budget = [frames |-> 0, inputs |-> MaxInputs + 1, wheel |-> 0]

SpecFocus == InitFocus /\ [][NextFocus]_vars

\* long runs of wheel events, with one selection, reset or mouse press
NextZoom ==
    \/ InitAnimate
    \/ Zooms
    \/ \E spot \in Spots : MouseDown(spot)
    \/ \E hit \in Hits : MouseClick(hit)
    \/ ResetBtn

InitZoom == Created /\ budget = [frames |-> 0, inputs |-> 1, wheel |-> MaxWheel]

SpecZoom == InitZoom /\ [][NextZoom]_vars

\* mouse and touch drags with resets; a release over a body selects it
NextDrag ==
    \/ InitAnimate
    \/ MouseDrags
    \/ TouchDrags
    \/ \E changed \in 1..2, hit \in Hits : TouchEnd(changed, hit)
    \/ ResetBtn

InitDrag == Created /\ budget = [frames |-> 0, inputs |-> MaxInputs + 1, wheel |-> 0]

SpecDrag == InitDrag /\ [][NextDrag]_vars

\* clicks and taps with closes and resets, while frames and transitions run
NextSelect ==
    \/ Frames
    \/ Selections
    \/ CloseInfo
    \/ ResetBtn

InitSelect == Created /\ budget = [frames |-> 1, inputs |-> MaxInputs, wheel |-> 0]

SpecSelect == InitSelect /\ [][NextSelect]_vars

\* startup, frames and the overlay's handlers, in each document
NextDom ==
    \/ InitFails
    \/ Frames
    \/ Selections
    \/ CloseInfo
    \/ ResetBtn

InitDom ==
    /\ Built
    /\ overlayDom \in OverlayCases
    /\ budget = [frames |-> 1, inputs |-> MaxInputs, wheel |-> 0]

SpecDom == InitDom /\ [][NextDom]_vars

\* selections, close and reset with frames and ticks; gsap.ticker keeps
\* ticking while a transition is running
NextSettle ==
    \/ Frames
    \/ \E hit \in Hits : MouseClick(hit)
    \/ CloseInfo
    \/ ResetBtn

InitSettle == Created /\ budget = [frames |-> 1, inputs |-> MaxInputs - 1, wheel |-> 0]

SpecSettle == InitSettle /\ [][NextSettle]_vars /\ WF_vars(GsapTick)

----------------------------------------------------------------------------
(* Properties                                                              *)

\* a step that runs animate()
FrameStep == clock' = clock + 1

\* a step that runs an input handler
InputStep == budget.inputs' < budget.inputs \/ budget.wheel' < budget.wheel

\* the position the orbit formula gives planet i at the given angle
OrbitPosition(i, angle) ==
    << Scaled(Cos(angle), Data(i).orbitRadius), 0,
       Scaled(Sin(angle), Data(i).orbitRadius) >>

\* angle, mesh position and mesh spin of every planet, Sun and star rotation
Motion(ps, s, st) ==
    [ planets |-> [i \in PlanetIndex |->
                     <<ps[i].angle, ps[i].position, ps[i].rotationY>>],
      sun |-> s.rotationY, stars |-> st ]

\* the spec's focus states, read off the code's fields
PlanetFocused == currentFocusedPlanet # NoPlanet

SunFocused == ~PlanetFocused /\ planetInfo.active /\ planetInfo.name = "Sun"

Focused == PlanetFocused \/ SunFocused

\* C1: after n unpaused frames with the planet's slider at m throughout, the
\* planet's angle is the angle it had when the n frames began plus
\* n * baseSpeed * m * globalSpeedMultiplier; with the slider never touched
\* that is initialAngle + n * baseSpeed.
C1_AngleAfterFrames ==
    \A i \in PlanetIndex :
        planets[i].angle =
            anchor[i].angle
            + anchor[i].frames * ((Data(i).speed * sliders[i]) \div 10)
                               * globalSpeedMultiplier

C1_Witness ==
    \E i \in PlanetIndex :
        /\ sliders[i] = 25
        /\ anchor[i].frames = 3
        /\ planets[i].angle > anchor[i].angle
        /\ \E j \in PlanetIndex : j # i /\ sliders[j] = SliderDefault /\ anchor[j].frames = 4

\* C2: frames run while paused leave every planet's angle, mesh position and
\* spin, and the Sun's and the stars' rotation, as they were when pause was
\* switched on; the first frame after the resume advances each angle by one
\* step of the planet's speed from the frozen angle.
C2_PauseFreezesBodies ==
    [][ FrameStep =>
          /\ isPaused =>
                Motion(planets', sun', starsRotation')
                  = Motion(pauseLog.snap.planets, pauseLog.snap.sun, pauseLog.snap.stars)
          /\ (~isPaused /\ pauseLog.paused > 0 /\ pauseLog.resumed = 0) =>
                \A i \in PlanetIndex :
                    planets'[i].angle =
                        pauseLog.snap.planets[i].angle
                        + planets[i].speed * globalSpeedMultiplier ]_vars

C2_Witness ==
    /\ ~isPaused
    /\ lastEvent = "frame"
    /\ pauseLog.paused = 2
    /\ pauseLog.resumed = 1
    /\ \A i \in PlanetIndex : planets[i].angle > pauseLog.snap.planets[i].angle

\* C3: in every reachable state, the one init() has built before the first
\* frame included, each planet's mesh position is
\* (cos(angle) * orbitRadius, 0, sin(angle) * orbitRadius).
C3_PositionFromAngle ==
    \A i \in PlanetIndex :
        planets[i].position = OrbitPosition(i, planets[i].angle)

\* C4: in every reachable state every planet's mesh lies in the plane y = 0 at
\* distance orbitRadius from the origin (to within one length unit, the
\* resolution of the fixed-point positions).
C4_OnCircle ==
    \A i \in PlanetIndex :
        LET pos == planets[i].position
            d2  == pos[1] * pos[1] + pos[3] * pos[3]
            r   == Data(i).orbitRadius
        IN  /\ pos[2] = 0
            /\ (r - 1) * (r - 1) <= d2
            /\ d2 <= (r + 1) * (r + 1)

C4_Witness ==
    /\ clock = 4
    /\ planetInfo.active
    /\ \E i \in PlanetIndex :
          /\ sliders[i] = 25
          /\ planets[i].position[3] > 0
          /\ planets[i].position # <<Data(i).orbitRadius, 0, 0>>

\* C5: the overlay is visible exactly when a focus reference is set.
C5_OverlayIffFocus == planetInfo.active <=> currentFocusedPlanet # NoPlanet

\* C6: a reset request ends with no focused body, follow mode off, the overlay
\* hidden and the orbit parameters at their defaults (radius 50, polar PI/3,
\* azimuth 0, target the origin), whatever selections, drags and zooms came
\* before; so does every further reset.
C6_ResetRestoresDefaults ==
    lastEvent = "reset" =>
        /\ currentFocusedPlanet = NoPlanet
        /\ ~cameraFollowMode
        /\ ~planetInfo.active
        /\ controls.spherical.radius = 50 * LenScale
        /\ controls.spherical.phi = PI \div 3
        /\ controls.spherical.theta = 0
        /\ controls.target = <<0, 0, 0>>

C6_Witness ==
    /\ lastEvent = "reset"
    /\ trail = <<"sun", "planet", "reset", "reset">>

\* C7: a drag (mouse or one-finger move with the button or finger held) while
\* the Sun or a planet is focused changes neither the camera position nor the
\* free-orbit parameters.
C7_DragIgnoredWhileFocused ==
    [][ ( /\ InputStep
          /\ lastEvent' \in {"mousemove", "touchmove"}
          /\ controls.isMouseDown
          /\ Focused )
        => /\ camera'.position = camera.position
           /\ controls'.spherical = controls.spherical ]_vars

\* the camera-to-planet distance and the length of the follow offset
FollowDistance(cam, ps, i) == Dist(cam.position, ps[i].position)

FollowMagnitude(i) == Dist(FollowOffset(i, 0), Origin)

\* C8: while a planet is followed, from one frame or transition tick to the
\* next the camera-to-planet distance moves towards the length of the follow
\* offset and never jumps across it (a tenth of a scene unit of slack).
C8_FollowDistanceMonotone ==
    [][ ( /\ cameraFollowMode /\ PlanetFocused
          /\ cameraFollowMode' /\ currentFocusedPlanet' = currentFocusedPlanet
          /\ lastEvent' \in {"frame", "tick"} )
        => LET i     == currentFocusedPlanet
               m     == FollowMagnitude(i)
               d     == FollowDistance(camera, planets, i)
               e     == FollowDistance(camera', planets', i)
               slack == LenScale \div 10
           IN  /\ Abs(e - m) <= Abs(d - m) + slack
               /\ ~(d > m + slack /\ e < m - slack)
               /\ ~(d < m - slack /\ e > m + slack) ]_vars

\* C9: a wheel event with deltaY > 0 multiplies the free-orbit radius by 1.1
\* (50 becomes 55), any other wheel event, deltaY = 0 included, by 0.9; the
\* product is then clamped to [10, 200].
C9_WheelFactor ==
    [][ (InputStep /\ lastEvent' = "wheel") =>
          LET r      == controls.spherical.radius
              factor == IF lastDeltaY' > 0 THEN 11 ELSE 9
              scaled == RDiv(r * factor, 10)
          IN  /\ controls'.spherical.radius =
                    (IF scaled < 10 * LenScale THEN 10 * LenScale
                     ELSE IF scaled > 200 * LenScale THEN 200 * LenScale
                     ELSE scaled)
              /\ (r = 50 * LenScale /\ lastDeltaY' > 0)
                    => controls'.spherical.radius = 55 * LenScale ]_vars

C9_Witness ==
    /\ lastEvent = "wheel"
    /\ lastDeltaY = 0
    /\ controls.spherical.radius = 45 * LenScale

\* C10: the free-orbit radius stays within [minDistance, maxDistance] =
\* [10, 200] in every reachable state.
C10_RadiusInRange ==
    /\ controls.spherical.radius >= 10 * LenScale
    /\ controls.spherical.radius <= 200 * LenScale

C10_Witness ==
    /\ lastEvent = "wheel"
    /\ lastDeltaY > 0
    /\ controls.spherical.radius = 200 * LenScale
    /\ budget.wheel <= MaxWheel - 15

\* C11: the free-orbit polar angle stays within [0.1, PI - 0.1] in every
\* reachable state, and a drag step takes azimuth to azimuth - dx * 0.005 and
\* polar to polar + dy * 0.005 clamped to that range, dx and dy being the
\* pointer's move since the last recorded position.
C11_PolarInRange ==
    /\ [](controls.spherical.phi >= AngScale \div 10
           /\ controls.spherical.phi <= PI - AngScale \div 10)
    /\ [][ ( /\ InputStep
              /\ lastEvent' \in {"mousemove", "touchmove"}
              /\ controls' # controls )
            => LET dx  == controls'.mouseX - controls.mouseX
                   dy  == controls'.mouseY - controls.mouseY
                   raw == controls.spherical.phi + dy * 5000
               IN  /\ controls'.spherical.theta = controls.spherical.theta - dx * 5000
                   /\ controls'.spherical.phi =
                         (IF raw < AngScale \div 10 THEN AngScale \div 10
                          ELSE IF raw > PI - AngScale \div 10 THEN PI - AngScale \div 10
                          ELSE raw) ]_vars

C11_Witness ==
    /\ lastEvent = "touchmove"
    /\ controls.spherical.phi = AngScale \div 10
    /\ controls.spherical.theta = 200000
    /\ trail = <<"reset">>

\* C12: a wheel event while the Sun or a planet is focused changes neither
\* the free-orbit radius nor the camera position.
C12_WheelIgnoredWhileFocused ==
    [][ (InputStep /\ lastEvent' = "wheel" /\ Focused)
        => /\ controls'.spherical.radius = controls.spherical.radius
           /\ camera'.position = camera.position ]_vars

\* C13: a click or tap whose ray hits neither a planet nor the Sun leaves the
\* focused body, follow mode, the overlay, the orbit parameters, the camera
\* and the running transitions as they were.
C13_EmptyClickChangesNothing ==
    [][ ( /\ InputStep
          /\ lastEvent' \in {"click", "touchend"}
          /\ gesture'.hit = "none" )
        => /\ UNCHANGED <<currentFocusedPlanet, cameraFollowMode, planetInfo>>
           /\ controls'.spherical = controls.spherical
           /\ controls'.target = controls.target
           /\ UNCHANGED <<camera, tweens>> ]_vars

C13_Witness ==
    /\ lastEvent = "touchend"
    /\ gesture.hit = "none"
    /\ PlanetFocused
    /\ cameraFollowMode
    /\ planetInfo.active
    /\ tweens # <<>>
    /\ clock = 2

\* C14: a press, move, release sequence that moved the pointer while held
\* issues no focus transition, wherever the release happens.
C14_DragNeverSelects ==
    [][ ( /\ InputStep
          /\ \/ lastEvent' = "click" /\ gesture.by = "mouse" /\ gesture.dragged = "mouse"
             \/ lastEvent' = "touchend" /\ gesture.by = "touch" /\ gesture.dragged = "touch" )
        => UNCHANGED <<currentFocusedPlanet, cameraFollowMode, planetInfo, tweens,
                       trail>> ]_vars

\* C15: a frame writes the camera (the follow lerp and lookAt) only when
\* follow mode is on and a planet is focused; with nothing focused or the Sun
\* focused a frame leaves the camera as it was.
C15_FollowWriteOnlyWhenFollowing ==
    [][ ( /\ FrameStep
          /\ \/ ~(cameraFollowMode /\ PlanetFocused)
             \/ ~planetInfo.active
             \/ planetInfo.name = "Sun" )
        => camera' = camera ]_vars

C15_Witness ==
    /\ lastEvent = "frame"
    /\ clock = 2
    /\ trail = <<"planet", "sun">>
    /\ planetInfo.active
    /\ planetInfo.name = "Sun"
    /\ tweens # <<>>

\* C16: at most one camera transition is in flight in any reachable state: a
\* transition started while another is running replaces it.
C16_OneTransitionInFlight == Len(tweens) <= 1

\* C17: while a camera transition is in flight, no frame and no input
\* handler writes the camera position; only the transition does.
C17_TransitionOwnsCamera ==
    [][ ((FrameStep \/ InputStep) /\ tweens # <<>>)
        => camera'.position = camera.position ]_vars

\* C18: frames while paused leave the shader time uniforms of the Sun and
\* the planets unchanged, and the first unpaused frame after a resume writes
\* the value that follows the last one written before the pause.
C18_PauseFreezesShaderTime ==
    [][ FrameStep =>
          /\ isPaused =>
                /\ sun'.time = sun.time
                /\ \A i \in PlanetIndex : planets'[i].time = planets[i].time
          /\ (~isPaused /\ pauseLog.resumed = 0) =>
                /\ sun'.time = pauseLog.snap.sun.time + 1
                /\ \A i \in PlanetIndex :
                      planets'[i].time = pauseLog.snap.planets[i].time + 1 ]_vars

\* C19: selecting planet P, whatever was focused before, leaves P focused,
\* follow mode on, the overlay visible with P's descriptor, and one new
\* transition towards P's position + (0, 2.5, 5) * P's radius that looks at P;
\* every later frame while P is followed moves the camera 5% of the way to
\* P's new position + the offset (4, 2.5, 5) * radius turned by P's angle, and
\* looks at P.
C19_SelectPlanetFollows ==
    /\ [][ ( /\ InputStep
              /\ lastEvent' \in {"click", "touchend"}
              /\ gesture'.hit = "planet" )
            => LET p == gesture'.index
                   r == Data(p).radius
                   n == Len(tweens')
               IN  /\ currentFocusedPlanet' = p
                   /\ cameraFollowMode'
                   /\ planetInfo' = [active |-> TRUE, name |-> Data(p).name]
                   /\ n = Len(tweens) + 1
                   /\ SubSeq(tweens', 1, n - 1) = tweens
                   /\ tweens'[n].to = << planets[p].position[1],
                                         planets[p].position[2] + (5 * r) \div 2,
                                         planets[p].position[3] + 5 * r >>
                   /\ tweens'[n].look = p
                   /\ tweens'[n].ticks = 0 ]_vars
    /\ [][ (FrameStep /\ cameraFollowMode /\ PlanetFocused)
            => LET p      == currentFocusedPlanet
                   r      == Data(p).radius
                   offset == RotateY(<<4 * r, (5 * r) \div 2, 5 * r>>, planets'[p].angle)
                   target == VAdd(planets'[p].position, offset)
               IN  /\ camera'.lookAt = planets'[p].position
                   /\ camera'.position =
                         [k \in 1..3 |-> camera.position[k]
                              + RDiv((target[k] - camera.position[k]) * 5, 100)] ]_vars

C19_Witness ==
    /\ lastEvent = "frame"
    /\ clock = 2
    /\ currentFocusedPlanet = 1
    /\ cameraFollowMode
    /\ planetInfo = [active |-> TRUE, name |-> "Venus"]
    /\ Len(tweens) = 3
    /\ tweens[1].look = NoPlanet
    /\ tweens[2].look = 0
    /\ tweens[3].look = 1

\* C20: selecting the Sun, from nothing focused or from a followed planet,
\* shows the Sun's descriptor with follow mode off, and while the Sun stays
\* focused no drag and no wheel event moves the camera.
C20_SunFocusLocksCamera ==
    /\ [][ ( /\ InputStep
              /\ lastEvent' \in {"click", "touchend"}
              /\ gesture'.hit = "sun" )
            => /\ planetInfo' = [active |-> TRUE, name |-> "Sun"]
               /\ ~cameraFollowMode'
               /\ SunFocused' ]_vars
    /\ [][ ( /\ InputStep
              /\ lastEvent' \in {"mousemove", "touchmove", "wheel"}
              /\ SunFocused )
            => camera' = camera ]_vars

\* C21: every planet's per-frame angle increment is baseSpeed * the value its
\* slider was last set to (1.0 if never set) * globalSpeedMultiplier: in every
\* state planet.speed is baseSpeed * slider, an unpaused frame adds exactly
\* that to the angle, and a slider input changes no angle and no speed of a
\* planet whose slider value it leaves as it was.
C21_SpeedFromSlider ==
    /\ [](\A i \in PlanetIndex :
             planets[i].speed = (Data(i).speed * sliders[i]) \div 10)
    /\ [][ (FrameStep /\ ~isPaused)
            => \A i \in PlanetIndex :
                  planets'[i].angle - planets[i].angle
                    = ((Data(i).speed * sliders[i]) \div 10) * globalSpeedMultiplier ]_vars
    /\ [][ (InputStep /\ lastEvent' = "slider")
            => \A j \in PlanetIndex :
                  /\ planets'[j].angle = planets[j].angle
                  /\ sliders'[j] = sliders[j] => planets'[j].speed = planets[j].speed ]_vars

C21_Witness ==
    /\ lastEvent = "frame"
    /\ ~isPaused
    /\ budget.inputs = 0
    /\ gesture.hit = "no ray"
    /\ sliders[0] = 25
    /\ sliders[1] = 0
    /\ planets[0].speed = 7500
    /\ planets[1].speed = 0
    /\ anchor[0].frames = 1

\* C23: when the overlay's elements are missing from the document, init()
\* reports it once, and afterwards no event handler and no frame throws
\* because of the missing element.
C23_MissingOverlayReportedOnce ==
    overlayDom # "complete" =>
        /\ phase # "created" => errors.reported = 1
        /\ errors.thrown = 0

\* C24: while isPaused is true, no animation frame (a call of animate() or a
\* tick of the transition engine) changes the camera's position or the point
\* it looks at, with a planet followed or a transition in flight.
C24_PauseFreezesCamera ==
    [][ (isPaused /\ (FrameStep \/ lastEvent' = "tick")) => camera' = camera ]_vars

\* the default overview pose: the camera at (0, 30, 50) looking at the origin
OverviewPose == [position |-> <<0, 30 * LenScale, 50 * LenScale>>, lookAt |-> Origin]

\* the latest focus request is a reset or a close of the overlay
ResetRequestedLast == trail # <<>> /\ trail[Len(trail)] \in {"reset", "close"}

\* C25: when a reset or close request is the last request of a run, the
\* camera eventually is at (0, 30, 50) looking at the origin and stays there,
\* whatever transitions or follow mode were active at the request.
C25_ResetSettlesAtOverview == <>[](ResetRequestedLast => camera = OverviewPose)

C25_Witness ==
    /\ budget.inputs = 0
    /\ Len(trail) = MaxInputs - 1
    /\ trail[MaxInputs - 2] = "planet"
    /\ trail[MaxInputs - 1] \in {"reset", "close"}
    /\ gesture.index = 1
    /\ lastEvent = "tick"
    /\ tweens = <<>>
    /\ camera = OverviewPose

\* C26: on every unpaused frame each planet's spin angle grows by exactly its
\* rotationSpeed, whatever its slider and the global multiplier are; with the
\* slider at 0 the orbital angle stands still and the planet still spins.
C26_SpinIgnoresSlider ==
    [][ (FrameStep /\ ~isPaused) => \A i \in PlanetIndex :
            /\ planets'[i].rotationY = planets[i].rotationY + planetData[i + 1].rotationSpeed
            /\ sliders[i] = 0 =>
                  /\ planets'[i].angle = planets[i].angle
                  /\ planets'[i].rotationY > planets[i].rotationY ]_vars

C26_Witness ==
    /\ lastEvent = "frame"
    /\ ~isPaused
    /\ sliders[0] = 0
    /\ sliders[1] = 25
    /\ anchor[0].frames >= 1
    /\ anchor[1].frames >= 1
    /\ planets[0].angle = anchor[0].angle
    /\ planets[0].rotationY >= 2 * planetData[1].rotationSpeed
    /\ planets[1].rotationY >= 2 * planetData[2].rotationSpeed

\* C27: between handlers and frames, follow mode is on exactly when a planet
\* is focused, and a focused planet is one of the planets created.
C27_FollowIffPlanetFocused ==
    /\ cameraFollowMode <=> currentFocusedPlanet # NoPlanet
    /\ currentFocusedPlanet # NoPlanet => currentFocusedPlanet \in 0 .. (NumPlanets - 1)

C27_Witness ==
    /\ Len(trail) = 3
    /\ trail[1] = "planet"
    /\ trail[2] = "sun"
    /\ trail[3] = "planet"
    /\ cameraFollowMode
    /\ currentFocusedPlanet = 1
    /\ lastEvent = "click"

\* C28: a visible overlay shows the body selected last: a selection of the Sun
\* or of a planet leaves the overlay visible with that body's name, a focused
\* planet always has its own name displayed, and a visible overlay without a
\* focused planet shows the Sun.
C28_OverlayShowsLastSelected ==
    /\ [](/\ currentFocusedPlanet # NoPlanet =>
                planetInfo = [active |-> TRUE, name |-> planetData[currentFocusedPlanet + 1].name]
          /\ (planetInfo.active /\ currentFocusedPlanet = NoPlanet) => planetInfo.name = "Sun")
    /\ [][ (InputStep /\ lastEvent' = "click") =>
              /\ (gesture'.hit = "sun") => (planetInfo' = [active |-> TRUE, name |-> "Sun"])
              /\ (gesture'.hit = "planet") =>
                    (planetInfo' = [active |-> TRUE,
                                    name |-> planetData[gesture'.index + 1].name])
              /\ (gesture'.hit = "none") => (planetInfo' = planetInfo) ]_vars

C28_Witness ==
    /\ lastEvent = "click"
    /\ Len(tweens) = 3
    /\ tweens[1].look = 0
    /\ tweens[2].look = NoPlanet
    /\ tweens[3].look = 1
    /\ currentFocusedPlanet = 1
    /\ planetInfo = [active |-> TRUE, name |-> "Venus"]

\* C29: the pose the reset transition ends at, (0, 30, 50), is the pose the
\* default orbit parameters (radius 50, polar PI/3, azimuth 0, target origin)
\* give: the first drag event after a completed reset, with the orbit
\* parameters still at their defaults or moved by a zero delta, leaves the
\* camera where it is.
C29_ResetPoseMatchesControls ==
    [][ ( /\ lastEvent' = "mousemove"
          /\ controls.isMouseDown
          /\ ResetRequestedLast
          /\ tweens = <<>>
          /\ camera = OverviewPose
          /\ controls'.spherical = controls.spherical )
        => camera' = camera ]_vars

\* C30: the orbit parameters in force when a followed planet is left are the
\* ones in force when the focus began, unless a reset or close intervened: no
\* step taken while a planet is followed (a drag, a wheel event, a frame,
\* another planet's selection), and no Sun selection that ends the focus,
\* changes them.
C30_OrbitParametersKeptOverFocus ==
    [][ (cameraFollowMode /\ lastEvent' \notin {"reset", "close"})
        => controls'.spherical = controls.spherical ]_vars

====
